---- MODULE Spec2Model ----
(***************************************************************************)
(* Model of lib/src/conflict_labels.rs (ConflictLabels): an optional,      *)
(* shared, immutable Merge<String> of labels for the terms of a conflict.  *)
(* The Merge<T> container (lib/src/merge.rs) is modelled from its contract *)
(* as a non-empty odd-length sequence of alternating add/remove terms.     *)
(***************************************************************************)
EXTENDS Integers, Sequences, FiniteSets, TLC

VARIABLES conflict_labels, op, arg, out, obs, fault

vars == <<conflict_labels, op, arg, out, obs, fault>>

(* ---------------- bounds and input domains ---------------- *)

\* longest flat list / merge handed to a constructor or to simplify_with
MaxLen == 5

\* largest add/remove index handed to get_add / get_remove
MaxIndex == 3

\* label texts; "" is the empty label
LabelTexts == {"", "left", "base", "right"}

\* contents of the value merge given to simplify_with
Values == {"A", "B"}

SeqsUpTo(S, n) == UNION {[1..k -> S] : k \in 0..n}

\* well-formed Merge<T> values: odd number of terms
Merges(S) == {m \in SeqsUpTo(S, MaxLen) : Len(m) % 2 = 1}

(* ---------------- Option, Arc, panics ---------------- *)

None == [some |-> FALSE]

Some(x) == [some |-> TRUE, val |-> x]

Arc_new(x) == [ptr |-> x]

Arc_as_ref(a) == a.ptr

Arc_unwrap_or_clone(a) == a.ptr

\* a call that returned x
Ok(x) == [panic |-> FALSE, val |-> x]

\* a call that panicked (no value is returned)
Panicked == [panic |-> TRUE]

(* ---------------- Merge<T> (lib/src/merge.rs) ---------------- *)

\* Merge::from_vec: a merge has one more add term than remove terms
Merge_from_vec(values) == IF Len(values) % 2 = 1 THEN Ok(values) ELSE Panicked

Merge_is_resolved(m) == Len(m) = 1

Merge_num_sides(m) == Len(m) \div 2 + 1

Merge_iter(m) == {m[i] : i \in 1..Len(m)}

Merge_as_slice(m) == m

\* add_index is 0-based; adds sit at the even 0-based offsets
Merge_get_add(m, add_index) ==
    IF 2 * add_index < Len(m) THEN Some(m[2 * add_index + 1]) ELSE None

Merge_get_remove(m, remove_index) ==
    IF 2 * remove_index + 1 < Len(m) THEN Some(m[2 * remove_index + 2]) ELSE None

\* f is a function defined on the terms of m
Merge_map(m, f) == [i \in 1..Len(m) |-> f[m[i]]]

Merge_zip(a, b) ==
    IF Len(a) = Len(b) THEN Ok([i \in 1..Len(a) |-> <<a[i], b[i]>>]) ELSE Panicked

Merge_unzip(m) ==
    <<[i \in 1..Len(m) |-> m[i][1]], [i \in 1..Len(m) |-> m[i][2]]>>

Swap(s, i, j) == [s EXCEPT ![i] = s[j], ![j] = s[i]]

\* remove the two entries at positions r and r+1
Drain2(s, r) == [i \in 1..(Len(s) - 2) |-> IF i < r THEN s[i] ELSE s[i + 2]]

Min(S) == CHOOSE x \in S : \A y \in S : x <= y

RECURSIVE SimplifyLoop(_, _, _)
\* idx: simplified position -> original position; add: current add position
SimplifyLoop(values, idx, add) ==
    IF add > Len(idx) THEN idx
    ELSE LET R == {r \in 1..Len(idx) : r % 2 = 0 /\ values[idx[r]] = values[idx[add]]}
         IN  IF R # {}
             THEN SimplifyLoop(values, Drain2(Swap(idx, Min(R) + 1, add), Min(R)), add)
             ELSE SimplifyLoop(values, idx, add + 2)

get_simplified_mapping(values) ==
    SimplifyLoop(values, [i \in 1..Len(values) |-> i], 1)

Reorder(m, mapping) == [i \in 1..Len(mapping) |-> m[mapping[i]]]

Merge_simplify(m) == Reorder(m, get_simplified_mapping(m))

Merge_simplify_by(m, f) == Reorder(m, get_simplified_mapping(Merge_map(m, f)))

(* ---------------- ConflictLabels ---------------- *)

unlabeled == [labels |-> None]

is_empty(label) == label = ""

new_NoEmptyCheck(labels) ==
    IF Merge_is_resolved(labels)
    THEN unlabeled
    ELSE [labels |-> Some(Arc_new(labels))]

new_AllEmpty(labels) ==
    IF Merge_is_resolved(labels) \/ (\A label \in Merge_iter(labels) : is_empty(label))
    THEN unlabeled
    ELSE [labels |-> Some(Arc_new(labels))]

new(labels) ==
    IF Merge_is_resolved(labels) \/ (\E label \in Merge_iter(labels) : is_empty(label))
    THEN unlabeled
    ELSE [labels |-> Some(Arc_new(labels))]

from_vec_NoEmptyCheck(labels) ==
    LET m == Merge_from_vec(labels)
    IN  IF m.panic THEN Panicked ELSE Ok(new(m.val))

from_vec(labels) ==
    IF labels = <<>>
    THEN Ok(unlabeled)
    ELSE LET m == Merge_from_vec(labels)
         IN  IF m.panic THEN Panicked ELSE Ok(new(m.val))

is_present_Negated(self) == ~self.labels.some

is_present(self) == self.labels.some

as_merge(self) ==
    IF self.labels.some THEN Some(Arc_as_ref(self.labels.val)) ELSE None

num_sides_Len(self) ==
    IF self.labels.some THEN Some(Len(self.labels.val.ptr)) ELSE None

num_sides(self) ==
    IF self.labels.some THEN Some(Merge_num_sides(self.labels.val.ptr)) ELSE None

into_merge(self) ==
    IF self.labels.some THEN Some(Arc_unwrap_or_clone(self.labels.val)) ELSE None

as_slice(self) ==
    IF as_merge(self).some THEN Merge_as_slice(as_merge(self).val) ELSE <<>>

get_add(self, add_index) ==
    IF as_merge(self).some THEN Merge_get_add(as_merge(self).val, add_index) ELSE None

get_remove(self, remove_index) ==
    IF as_merge(self).some THEN Merge_get_remove(as_merge(self).val, remove_index) ELSE None

Pair(l, m) == [labels |-> l, merge |-> m]

\* the closure |&(_label, item)| item, on the terms of a zipped merge
item_of(zipped) == [p \in Merge_iter(zipped) |-> p[2]]

label_of(zipped) == [p \in Merge_iter(zipped) |-> p[1]]

whole(zipped) == [p \in Merge_iter(zipped) |-> p]

simplify_with_KeyPair(self, merge) ==
    IF as_merge(self).some
    THEN LET zipped == Merge_zip(as_merge(self).val, merge)
         IN  IF zipped.panic THEN Panicked
             ELSE LET un == Merge_unzip(Merge_simplify_by(zipped.val, whole(zipped.val)))
                  IN  Ok(Pair(new(un[1]), un[2]))
    ELSE Ok(Pair(unlabeled, Merge_simplify(merge)))

simplify_with_KeyLabel(self, merge) ==
    IF as_merge(self).some
    THEN LET zipped == Merge_zip(as_merge(self).val, merge)
         IN  IF zipped.panic THEN Panicked
             ELSE LET un == Merge_unzip(Merge_simplify_by(zipped.val, label_of(zipped.val)))
                  IN  Ok(Pair(new(un[1]), un[2]))
    ELSE Ok(Pair(unlabeled, Merge_simplify(merge)))

simplify_with_Separate(self, merge) ==
    IF as_merge(self).some
    THEN IF Merge_zip(as_merge(self).val, merge).panic THEN Panicked
         ELSE Ok(Pair(new(Merge_simplify(as_merge(self).val)), Merge_simplify(merge)))
    ELSE Ok(Pair(unlabeled, Merge_simplify(merge)))

simplify_with_NoNormalize(self, merge) ==
    IF as_merge(self).some
    THEN LET zipped == Merge_zip(as_merge(self).val, merge)
         IN  IF zipped.panic THEN Panicked
             ELSE LET un == Merge_unzip(Merge_simplify_by(zipped.val, item_of(zipped.val)))
                  IN  Ok(Pair([labels |-> Some(Arc_new(un[1]))], un[2]))
    ELSE Ok(Pair(unlabeled, Merge_simplify(merge)))

simplify_with_UnlabeledNoSimplify(self, merge) ==
    IF as_merge(self).some
    THEN LET zipped == Merge_zip(as_merge(self).val, merge)
         IN  IF zipped.panic THEN Panicked
             ELSE LET un == Merge_unzip(Merge_simplify_by(zipped.val, item_of(zipped.val)))
                  IN  Ok(Pair(new(un[1]), un[2]))
    ELSE Ok(Pair(unlabeled, merge))

simplify_with(self, merge) ==
    IF as_merge(self).some
    THEN LET zipped == Merge_zip(as_merge(self).val, merge)
         IN  IF zipped.panic THEN Panicked
             ELSE LET un == Merge_unzip(Merge_simplify_by(zipped.val, item_of(zipped.val)))
                  IN  Ok(Pair(new(un[1]), un[2]))
    ELSE Ok(Pair(unlabeled, Merge_simplify(merge)))

\* &str -> String keeps the text
to_owned(label) == label

From_Merge_String(value) == new(value)

From_Merge_str(value) ==
    new(Merge_map(value, [label \in Merge_iter(value) |-> to_owned(label)]))

\* From<Option<T>> with T = Merge<&str>, as the tests use it
From_Option(value) == IF value.some THEN From_Merge_str(value.val) ELSE unlabeled

\* what one round of accessor calls on `self` returns
Observation(self, index) ==
    [index |-> index,
     is_present |-> is_present(self),
     num_sides |-> num_sides(self),
     as_merge |-> as_merge(self),
     into_merge |-> into_merge(self),
     as_slice |-> as_slice(self),
     get_add |-> get_add(self, index),
     get_remove |-> get_remove(self, index)]

(* ---------------- state machine ---------------- *)

Init ==
    /\ conflict_labels = unlabeled
    /\ op = "unlabeled"
    /\ arg = <<>>
    /\ out = None
    /\ obs = None
    /\ fault = FALSE

\* The binding holds the instance `unlabeled()` and nothing was done with it.
Fresh == op = "unlabeled"

\* A constructor call that returned `r` (or panicked) for input `a`.  The
\* constructors are associated functions: they take no receiver and the
\* binding is overwritten, so the state they lead to does not depend on the
\* state they are called from; those with an input are enumerated from the
\* fresh binding, which `Unlabeled` restores from anywhere.
Constructed(name, a, r) ==
    /\ op' = name
    /\ arg' = a
    /\ out' = None
    /\ obs' = None
    /\ fault' = r.panic
    /\ conflict_labels' = IF r.panic THEN conflict_labels ELSE r.val

Unlabeled ==
    /\ ~fault
    /\ Constructed("unlabeled", <<>>, Ok(unlabeled))

New ==
    /\ ~fault
    /\ Fresh
    /\ \E m \in Merges(LabelTexts) : Constructed("new", m, Ok(new(m)))

FromVec ==
    /\ ~fault
    /\ Fresh
    /\ \E v \in SeqsUpTo(LabelTexts, MaxLen) : Constructed("from_vec", v, from_vec(v))

FromMergeString ==
    /\ ~fault
    /\ Fresh
    /\ \E m \in Merges(LabelTexts) :
          Constructed("from_merge_string", m, Ok(From_Merge_String(m)))

FromMergeStr ==
    /\ ~fault
    /\ Fresh
    /\ \E m \in Merges(LabelTexts) :
          Constructed("from_merge_str", m, Ok(From_Merge_str(m)))

FromOption ==
    /\ ~fault
    /\ Fresh
    /\ \/ Constructed("from_option_none", <<>>, Ok(From_Option(None)))
       \/ \E m \in Merges(LabelTexts) :
             Constructed("from_option_some", m, Ok(From_Option(Some(m))))

SimplifyWith ==
    /\ ~fault
    /\ \E merge \in Merges(Values) :
          LET r == simplify_with(conflict_labels, merge)
          IN  /\ op' = "simplify_with"
              /\ arg' = merge
              /\ fault' = r.panic
              /\ out' = IF r.panic THEN None ELSE Some(r.val)
              /\ obs' = None
              /\ UNCHANGED conflict_labels

\* the caller keeps the returned pair: the returned labels become the receiver
Rebind ==
    /\ ~fault
    /\ out.some
    /\ conflict_labels' = out.val.labels
    /\ arg' = out.val.merge
    /\ op' = "rebind"
    /\ out' = None
    /\ obs' = None
    /\ UNCHANGED fault

Observe ==
    /\ ~fault
    /\ \E index \in 0..MaxIndex :
          /\ obs' = Some(Observation(conflict_labels, index))
          /\ op' = "observe"
          /\ arg' = <<>>
          /\ out' = None
          /\ UNCHANGED <<conflict_labels, fault>>

Next ==
    \/ Unlabeled
    \/ New
    \/ FromVec
    \/ FromMergeString
    \/ FromMergeStr
    \/ FromOption
    \/ SimplifyWith
    \/ Rebind
    \/ Observe

Spec == Init /\ [][Next]_vars

(* ---------------- properties ---------------- *)

LBR == <<"left", "base", "right">>

Simplified == op = "simplify_with" /\ ~fault /\ out.some

\* I1 and I2 for one instance
Normalized(self) ==
    is_present(self) =>
        /\ ~Merge_is_resolved(as_merge(self).val)
        /\ Merge_num_sides(as_merge(self).val) > 1
        /\ \A i \in 1..Len(as_merge(self).val) : as_merge(self).val[i] # ""

\* C1: every instance reachable through the constructors, the conversions and
\* simplify_with (its results fed back included) that has labels holds an
\* unresolved merge (more than one side) without any empty label.
C1_Invariant ==
    /\ Normalized(conflict_labels)
    /\ out.some => Normalized(out.val.labels)

C1_Witness ==
    /\ op = "rebind"
    /\ is_present(conflict_labels)
    /\ Len(as_slice(conflict_labels)) = 3

\* C2: new(m) is unlabeled exactly when m is resolved or has an empty label;
\* otherwise it is present and as_merge() and into_merge() both yield m.
C2_New ==
    op = "new" =>
        /\ ~fault
        /\ ~is_present(conflict_labels) <=>
              (Len(arg) = 1 \/ \E i \in 1..Len(arg) : arg[i] = "")
        /\ is_present(conflict_labels) =>
              /\ as_merge(conflict_labels) = Some(arg)
              /\ into_merge(conflict_labels) = Some(arg)

C2_Witness ==
    /\ op = "new"
    /\ Len(arg) = 5
    /\ is_present(conflict_labels)
    /\ into_merge(conflict_labels) = Some(arg)

NoEmptyEntry(list) == \A i \in 1..Len(list) : list[i] # ""

FromVecGood ==
    /\ ~fault
    /\ is_present(conflict_labels)
    /\ as_slice(conflict_labels) = arg
    /\ num_sides(conflict_labels) = Some((Len(arg) + 1) \div 2)

\* C3 as stated: for every non-empty list without an empty entry from_vec is
\* present, as_slice() is the list and num_sides() the implied side count;
\* from_vec of the empty list is unlabeled().
C3_Original ==
    op = "from_vec" =>
        /\ (arg # <<>> /\ NoEmptyEntry(arg)) => FromVecGood
        /\ arg = <<>> => (~fault /\ conflict_labels = unlabeled)

\* C3 amended: for every list of odd length at least 3 without an empty entry
\* from_vec is present, as_slice() is the list and num_sides() is
\* (length + 1) / 2; from_vec of the empty list is unlabeled().
C3_FromVec ==
    op = "from_vec" =>
        /\ (Len(arg) >= 3 /\ Len(arg) % 2 = 1 /\ NoEmptyEntry(arg)) => FromVecGood
        /\ arg = <<>> => (~fault /\ conflict_labels = unlabeled)

C3_Witness ==
    /\ op = "from_vec"
    /\ arg = LBR
    /\ as_slice(conflict_labels) = LBR
    /\ num_sides(conflict_labels) = Some(2)

ConstructorOps ==
    {"unlabeled", "new", "from_vec", "from_merge_string", "from_merge_str",
     "from_option_none", "from_option_some"}

\* the accessor results are what the instance holds, absent when out of range
ObservedWell ==
    obs.some =>
        LET o == obs.val
            n == IF is_present(conflict_labels) THEN Len(as_slice(conflict_labels)) ELSE 0
        IN  /\ o.is_present \in BOOLEAN
            /\ o.num_sides.some <=> o.is_present
            /\ o.as_merge.some <=> o.is_present
            /\ o.into_merge.some <=> o.is_present
            /\ Len(o.as_slice) = n
            /\ o.get_add.some <=> 2 * o.index < n
            /\ o.get_add.some => o.get_add.val = o.as_slice[2 * o.index + 1]
            /\ o.get_remove.some <=> 2 * o.index + 1 < n
            /\ o.get_remove.some => o.get_remove.val = o.as_slice[2 * o.index + 2]

\* C4 as stated: no constructor and no accessor faults, whatever the input.
C4_Original ==
    op \in ConstructorOps \cup {"observe"} => ~fault

\* C4 amended: the constructors and accessors return a normalized value and
\* do not fault for every input but one: from_vec of a non-empty list of even
\* length faults.
C4_Total ==
    /\ op \in ConstructorOps \cup {"observe"} =>
          (fault <=> (op = "from_vec" /\ Len(arg) > 0 /\ Len(arg) % 2 = 0))
    /\ (op \in ConstructorOps /\ ~fault) => Normalized(conflict_labels)
    /\ ObservedWell

C4_Witness ==
    /\ op = "observe"
    /\ obs.some
    /\ obs.val.is_present
    /\ obs.val.index = 3
    /\ ~obs.val.get_add.some
    /\ ~obs.val.get_remove.some

\* C5: with labels present and a value merge of the same shape, the returned
\* value merge is what merge.simplify() alone gives, whatever the labels.
C5_ValuesDecide ==
    (Simplified /\ is_present(conflict_labels)) =>
        out.val.merge = Merge_simplify(arg)

C5_Witness ==
    /\ Simplified
    /\ is_present(conflict_labels)
    /\ Len(arg) = 5
    /\ Len(out.val.merge) = 3
    /\ is_present(out.val.labels)

\* result term i is input term f[i], same polarity, distinct terms
Carried(rl, rv, l, v) ==
    /\ Len(rl) = Len(rv)
    /\ \E f \in [1..Len(rv) -> 1..Len(v)] :
          /\ \A i \in 1..Len(rv) :
                /\ f[i] % 2 = i % 2
                /\ rl[i] = l[f[i]]
                /\ rv[i] = v[f[i]]
          /\ \A i, j \in 1..Len(rv) : i # j => f[i] # f[j]

\* C6 as stated: every term of the result has a label, and (label, value) at
\* each result position is the (label, value) of a distinct input position of
\* the same polarity.
C6_Original ==
    (Simplified /\ is_present(conflict_labels)) =>
        Carried(as_slice(out.val.labels), out.val.merge,
                as_slice(conflict_labels), arg)

\* C6 amended: the same, whenever the returned label set is present (a
\* resolved result comes back unlabeled: its one value has no label).
C6_LabelsTravel ==
    (Simplified /\ is_present(conflict_labels) /\ is_present(out.val.labels)) =>
        Carried(as_slice(out.val.labels), out.val.merge,
                as_slice(conflict_labels), arg)

C6_Witness ==
    /\ Simplified
    /\ as_slice(conflict_labels) = <<"left", "base", "right", "base", "left">>
    /\ arg = <<"A", "A", "B", "A", "B">>
    /\ as_slice(out.val.labels) = <<"right", "base", "left">>
    /\ out.val.merge = <<"B", "A", "B">>

\* C7: the returned pair has matching shapes: returned labels, when present,
\* have as many sides as the returned value merge; and for a present receiver
\* the returned labels are absent exactly when the returned merge is resolved.
C7_ShapesMatch ==
    Simplified =>
        /\ is_present(out.val.labels) =>
              num_sides(out.val.labels) = Some(Merge_num_sides(out.val.merge))
        /\ is_present(conflict_labels) =>
              (~is_present(out.val.labels) <=> Merge_is_resolved(out.val.merge))

C7_Witness ==
    /\ Simplified
    /\ is_present(conflict_labels)
    /\ Len(arg) = 5
    /\ Merge_is_resolved(out.val.merge)
    /\ ~is_present(out.val.labels)

\* C8 as stated: on ["left","base","right"] with the value terms (A, B, A) a
\* pair cancels and the surviving label sequence has reduced arity.
C8_Original ==
    (Simplified /\ as_slice(conflict_labels) = LBR /\ arg = <<"A", "B", "A">>) =>
        /\ Len(out.val.merge) < 3
        /\ Len(as_slice(out.val.labels)) < 3

\* C8 amended: on ["left","base","right"] with the value terms (A, B, A)
\* nothing cancels (the equal values are both add terms) and labels and values
\* come back unchanged, label i still with value i; with (A, A, B), where an
\* add equals the remove, the pair cancels by value: the value merge is (B)
\* and, being resolved, it comes back unlabeled.
C8_Example ==
    (Simplified /\ as_slice(conflict_labels) = LBR) =>
        /\ arg = <<"A", "B", "A">> =>
              (out.val.labels = conflict_labels /\ out.val.merge = arg)
        /\ arg = <<"A", "A", "B">> =>
              (out.val.labels = unlabeled /\ out.val.merge = <<"B">>)

C8_Witness ==
    /\ Simplified
    /\ as_slice(conflict_labels) = LBR
    /\ arg = <<"A", "B", "A">>
    /\ as_slice(out.val.labels) = LBR

\* C9: simplify_with on an unlabeled receiver returns unlabeled() and the
\* value merge as merge.simplify() gives it, for any value merge, and leaves
\* the receiver as it was.
C9_Unlabeled ==
    [][(op' = "simplify_with" /\ ~is_present(conflict_labels)) =>
          /\ ~fault'
          /\ conflict_labels' = conflict_labels
          /\ out' = Some(Pair(unlabeled, Merge_simplify(arg')))]_vars

C9_Witness ==
    /\ Simplified
    /\ ~is_present(conflict_labels)
    /\ arg = <<"A", "A", "B", "B", "A">>
    /\ out.val.merge = <<"A">>
    /\ out.val.labels = unlabeled

ObserversAgree(self) ==
    /\ ~is_present(self) <=> ~as_merge(self).some
    /\ ~is_present(self) <=> ~num_sides(self).some
    /\ ~is_present(self) <=> as_slice(self) = <<>>

\* C10: is_present() is false iff as_merge() is absent iff num_sides() is
\* absent iff as_slice() is empty, for every reachable instance.
C10_Absence ==
    /\ ObserversAgree(conflict_labels)
    /\ out.some => ObserversAgree(out.val.labels)

C10_Witness ==
    /\ op = "from_option_some"
    /\ is_present(conflict_labels)
    /\ as_slice(conflict_labels) = LBR

====
